---- MODULE Spec2Model ----
(***************************************************************************)
(* The editable-dataset session of the credit_approval dashboard:          *)
(* app.py main() (one pass of the script per user interaction),            *)
(* ProcessingModule.render and its handlers, and the helpers of utils.py.  *)
(*                                                                         *)
(* A table (pandas DataFrame) is a record                                  *)
(*   [cols, dtypes, rows], rows a sequence of [id, c]:                     *)
(* cols are the column labels, dtypes the column dtypes, id the row's      *)
(* index label (its identity) and c its cells, one per column.             *)
(* An optional value (None / absent key) is a sequence of length 0 or 1.   *)
(***************************************************************************)
EXTENDS Integers, Sequences, FiniteSets, TLC

(***************************************************************************)
(* Cells.  A number is a reduced fraction n/d, d > 0; NA is NaN/None.      *)
(***************************************************************************)
NA == [k |-> "na", n |-> 0, d |-> 1, s |-> ""]

Str(s) == [k |-> "str", n |-> 0, d |-> 1, s |-> s]

Abs(x) == IF x < 0 THEN -x ELSE x

RECURSIVE GCD(_, _)
GCD(a, b) == IF b = 0 THEN a ELSE GCD(b, a % b)

Num(n, d) ==
    LET g == GCD(Abs(n), d)
    IN  [k |-> "num", n |-> n \div g, d |-> d \div g, s |-> ""]

IsNA(x) == x.k = "na"

IsNum(x) == x.k = "num"

IsStr(x) == x.k = "str"

RatLess(x, y) == x.n * y.d < y.n * x.d

RatAdd(x, y) == Num(x.n * y.d + y.n * x.d, x.d * y.d)

RatSub(x, y) == Num(x.n * y.d - y.n * x.d, x.d * y.d)

\* x / y for y > 0
RatDiv(x, y) == Num(x.n * y.d, x.d * y.n)

(***************************************************************************)
(* Sequence helpers.                                                       *)
(***************************************************************************)
Range(s) == {s[i] : i \in DOMAIN s}

RECURSIVE SeqOfSet(_)
SeqOfSet(S) ==
    IF S = {} THEN <<>>
    ELSE LET m == CHOOSE x \in S : \A y \in S : x <= y
         IN  <<m>> \o SeqOfSet(S \ {m})

\* the subsequence of s at the positions of the ascending position list ps
Pick(s, ps) == [i \in 1..Len(ps) |-> s[ps[i]]]

\* the one value of a singleton set: The({e(x) : x \in {v}}) is e(v), with v
\* computed once
The(S) == CHOOSE v \in S : TRUE

EmptyOpt == <<>>

Some(x) == <<x>>

(***************************************************************************)
(* Tables.                                                                 *)
(***************************************************************************)
NRows(t) == Len(t.rows)

NCols(t) == Len(t.cols)

\* DataFrame.empty: some axis has length 0
IsEmpty(t) == NRows(t) = 0 \/ NCols(t) = 0

Ids(t) == [i \in 1..NRows(t) |-> t.rows[i].id]

Column(t, j) == [i \in 1..NRows(t) |-> t.rows[i].c[j]]

HasCol(t, name) == \E j \in 1..NCols(t) : t.cols[j] = name

ColPos(t, name) == CHOOSE j \in 1..NCols(t) : t.cols[j] = name

IsNumericDtype(d) == d \in {"int64", "float64"}

\* a row selection that numbers the rows it returns afresh
ILocRowsRenumbered(t, ps) ==
    [t EXCEPT !.rows = [i \in 1..Len(ps) |->
                            [id |-> i - 1, c |-> t.rows[ps[i]].c]]]

\* t with its rows restricted to the positions ps (DataFrame.iloc[ps]):
\* index labels travel with the rows
ILocRows(t, ps) == [t EXCEPT !.rows = Pick(t.rows, ps)]

\* t with its columns restricted to the positions js, in that order
TakeCols(t, js) ==
    [cols   |-> Pick(t.cols, js),
     dtypes |-> Pick(t.dtypes, js),
     rows   |-> [i \in 1..NRows(t) |->
                    [id |-> t.rows[i].id, c |-> Pick(t.rows[i].c, js)]]]

\* DataFrame.drop(columns=names)
DropCols(t, names) ==
    TakeCols(t, SeqOfSet({j \in 1..NCols(t) : t.cols[j] \notin names}))

\* df[col] = values (an existing column), with the dtype of the new values
SetColumn(t, j, vals, dtype) ==
    [cols   |-> t.cols,
     dtypes |-> [t.dtypes EXCEPT ![j] = dtype],
     rows   |-> [i \in 1..NRows(t) |->
                    [id |-> t.rows[i].id,
                     c  |-> [t.rows[i].c EXCEPT ![j] = vals[i]]]]]

\* DataFrame.reset_index(drop=True): labels become 0..n-1
ResetIndex(t) ==
    [t EXCEPT !.rows = [i \in 1..NRows(t) |-> [id |-> i - 1, c |-> t.rows[i].c]]]

\* DataFrame.isnull().sum().sum()
MissingCount(t) ==
    Cardinality({<<i, j>> \in (1..NRows(t)) \X (1..NCols(t)) : IsNA(t.rows[i].c[j])})

(***************************************************************************)
(* Uploaded files.  A file is its name and its delimited text, already     *)
(* split into the header fields and the fields of each record.             *)
(***************************************************************************)
FileA ==
    [name |-> "a.csv", header |-> <<"A", "B">>,
     body |-> << <<"1", "x">>, <<"1", "x">>, <<"?", "y">> >>]

FileB ==
    [name |-> "b.csv", header |-> <<"A", "B">>,
     body |-> << <<"2", "missing">>, <<"4", "y">>, <<"1", "">> >>]

\* another file that carries the name of FileA
FileA2 ==
    [name |-> "a.csv", header |-> <<"A", "B">>,
     body |-> << <<"4", "y">>, <<"2", "x">> >>]

\* an empty file: read_csv raises EmptyDataError
FileBad == [name |-> "bad.csv", header |-> <<>>, body |-> <<>>]

\* a file with a column whose name is the label one-hot encoding generates
\* for the value x of column B
FileC ==
    [name |-> "c.csv", header |-> <<"B", "B_x">>,
     body |-> << <<"x", "1">>, <<"y", "2">> >>]

Files == {FileA, FileB, FileA2, FileBad, FileC}

(***************************************************************************)
(* load_data: read_csv with na_values, then auto_convert_dtypes.           *)
(***************************************************************************)
\* the na_values of load_data (pandas' own defaults add no string used here)
NaValuesLoad == {"?", "NA", "N/A", "null", "NULL", "", " ", "nan", "NaN"}

\* the text fields that parse as a number, and their value
NumStrs == {"0", "1", "2", "3", "4"}

NumOf(s) ==
    CASE s = "0" -> 0 [] s = "1" -> 1 [] s = "2" -> 2 [] s = "3" -> 3 [] s = "4" -> 4

\* read_csv raises on a file without columns
ReadCsvRaises(f) == Len(f.header) = 0

\* the dtype read_csv infers for the fields of one column
InferDtype(fields) ==
    LET present == {i \in DOMAIN fields : fields[i] \notin NaValuesLoad}
    IN  IF \E i \in present : fields[i] \notin NumStrs THEN "object"
        ELSE IF present = DOMAIN fields /\ present # {} THEN "int64"
        ELSE "float64"

ParseField(s, dtype) ==
    IF s \in NaValuesLoad THEN NA
    ELSE IF dtype = "object" THEN Str(s)
    ELSE Num(NumOf(s), 1)

ReadCsv(f) ==
    LET nc == Len(f.header)
        fields(j) == [i \in 1..Len(f.body) |-> f.body[i][j]]
        dt == [j \in 1..nc |-> InferDtype(fields(j))]
    IN  [cols   |-> f.header,
         dtypes |-> dt,
         rows   |-> [i \in 1..Len(f.body) |->
                        [id |-> i - 1,
                         c  |-> [j \in 1..nc |-> ParseField(f.body[i][j], dt[j])]]]]

\* pd.to_numeric(str(val), errors='raise') succeeds
ToNumericOk(x) == IsNum(x) \/ (IsStr(x) /\ x.s \in NumStrs)

\* pd.to_numeric(column, errors='coerce') of one cell
ToNumericCoerce(x) ==
    IF IsNum(x) THEN x
    ELSE IF IsStr(x) /\ x.s \in NumStrs THEN Num(NumOf(x.s), 1)
    ELSE NA

AutoConvertColumn(t, j) ==
    LET col == Column(t, j)
        nonNull == {i \in DOMAIN col : ~IsNA(col[i])}
    IN  IF t.dtypes[j] = "object" /\ nonNull # {}
           /\ \A i \in nonNull : ToNumericOk(col[i])
        THEN SetColumn(t, j, [i \in DOMAIN col |-> ToNumericCoerce(col[i])],
                       IF nonNull = DOMAIN col THEN "int64" ELSE "float64")
        ELSE t

RECURSIVE AutoConvertFrom(_, _)
AutoConvertFrom(t, j) ==
    IF j > NCols(t) THEN t ELSE AutoConvertFrom(AutoConvertColumn(t, j), j + 1)

auto_convert_dtypes(t) == AutoConvertFrom(t, 1)

\* load_data: None (the empty option) when anything raises
load_data(f) ==
    IF ReadCsvRaises(f) THEN EmptyOpt ELSE Some(auto_convert_dtypes(ReadCsv(f)))

(***************************************************************************)
(* parse_indices.  An index expression is the sequence of its characters.  *)
(***************************************************************************)
Digits == {"0", "1", "2", "3", "4", "5", "6", "7", "8", "9"}

DigitOf(ch) ==
    CASE ch = "0" -> 0 [] ch = "1" -> 1 [] ch = "2" -> 2 [] ch = "3" -> 3
      [] ch = "4" -> 4 [] ch = "5" -> 5 [] ch = "6" -> 6 [] ch = "7" -> 7
      [] ch = "8" -> 8 [] ch = "9" -> 9

\* str.split(sep): the pieces between the separators, empty pieces included
RECURSIVE SplitAcc(_, _, _)
SplitAcc(str, sep, cur) ==
    IF str = <<>> THEN <<cur>>
    ELSE IF Head(str) = sep THEN <<cur>> \o SplitAcc(Tail(str), sep, <<>>)
    ELSE SplitAcc(Tail(str), sep, Append(cur, Head(str)))

Split(str, sep) == SplitAcc(str, sep, <<>>)

\* str.strip()
RECURSIVE LStrip(_)
LStrip(str) ==
    IF str # <<>> /\ Head(str) = " " THEN LStrip(Tail(str)) ELSE str

RECURSIVE RStrip(_)
RStrip(str) ==
    IF str # <<>> /\ str[Len(str)] = " "
    THEN RStrip(SubSeq(str, 1, Len(str) - 1)) ELSE str

Strip(str) == RStrip(LStrip(str))

\* int(str) does not raise ValueError (no sign: a part holding '-' is split on it)
IntOk(str) == Strip(str) # <<>> /\ \A i \in DOMAIN Strip(str) : Strip(str)[i] \in Digits

RECURSIVE DigitsVal(_, _)
DigitsVal(str, acc) ==
    IF str = <<>> THEN acc ELSE DigitsVal(Tail(str), 10 * acc + DigitOf(Head(str)))

IntOf(str) == DigitsVal(Strip(str), 0)

Max2(a, b) == IF a >= b THEN a ELSE b

Min2(a, b) == IF a <= b THEN a ELSE b

\* a parser whose ranges exclude their end
ParsePartEndExclusive(rawPart, max_index) ==
    IF "-" \in Range(Strip(rawPart))
    THEN IF Len(Split(Strip(rawPart), "-")) = 2
              /\ IntOk(Split(Strip(rawPart), "-")[1])
              /\ IntOk(Split(Strip(rawPart), "-")[2])
         THEN [idx |-> Max2(0, IntOf(Split(Strip(rawPart), "-")[1]))
                          .. (Min2(max_index - 1,
                                   IntOf(Split(Strip(rawPart), "-")[2])) - 1),
               err |-> ""]
         ELSE [idx |-> {}, err |-> "range"]
    ELSE IF IntOk(Strip(rawPart))
         THEN IF 0 <= IntOf(Strip(rawPart)) /\ IntOf(Strip(rawPart)) < max_index
              THEN [idx |-> {IntOf(Strip(rawPart))}, err |-> ""]
              ELSE [idx |-> {}, err |-> "out_of_range"]
         ELSE [idx |-> {}, err |-> "index"]

\* what one part of the expression contributes: the indices it appends and
\* the error it reports ("" for none)
ParsePart(rawPart, max_index) ==
    LET part == Strip(rawPart)
        pieces == Split(part, "-")
    IN  IF "-" \in Range(part)
        THEN IF Len(pieces) = 2 /\ IntOk(pieces[1]) /\ IntOk(pieces[2])
             THEN [idx |-> Max2(0, IntOf(pieces[1]))
                              .. Min2(max_index - 1, IntOf(pieces[2])),
                   err |-> ""]
             ELSE [idx |-> {}, err |-> "range"]
        ELSE IF IntOk(part)
             THEN IF 0 <= IntOf(part) /\ IntOf(part) < max_index
                  THEN [idx |-> {IntOf(part)}, err |-> ""]
                  ELSE [idx |-> {}, err |-> "out_of_range"]
             ELSE [idx |-> {}, err |-> "index"]

\* a parser that returns no index when any part is in error
parse_indices_all_or_nothing(indices_str, max_index) ==
    IF Strip(indices_str) = <<>> THEN [indices |-> <<>>, errors |-> <<>>]
    ELSE LET parts == Split(indices_str, ",")
             res == [i \in DOMAIN parts |-> ParsePart(parts[i], max_index)]
         IN  IF \E i \in DOMAIN res : res[i].err # ""
             THEN [indices |-> <<>>, errors |-> <<"rejected">>]
             ELSE [indices |-> SeqOfSet(UNION {res[i].idx : i \in DOMAIN res}),
                   errors  |-> <<>>]

\* parse_indices: the sorted, deduplicated indices and the errors reported
parse_indices(indices_str, max_index) ==
    IF Strip(indices_str) = <<>> THEN [indices |-> <<>>, errors |-> <<>>]
    ELSE LET parts == Split(indices_str, ",")
             res == [i \in DOMAIN parts |-> ParsePart(parts[i], max_index)]
         IN  [indices |-> SeqOfSet(UNION {res[i].idx : i \in DOMAIN res}),
              errors  |-> [i \in 1..Len(SelectSeq(res, LAMBDA r : r.err # "")) |->
                              SelectSeq(res, LAMBDA r : r.err # "")[i].err]]

(***************************************************************************)
(* Column classification (utils.py).                                       *)
(***************************************************************************)
SampleCap == 100

ThresholdNum == 7

ThresholdDen == 10

\* get_numeric_columns: the columns of a number dtype (bool is none)
get_numeric_columns(t) ==
    IF IsEmpty(t) THEN <<>>
    ELSE Pick(t.cols, SeqOfSet({j \in 1..NCols(t) : IsNumericDtype(t.dtypes[j])}))

\* float(str(val).strip()) does not raise
FloatOk(x) == IsNum(x) \/ (IsStr(x) /\ x.s \in NumStrs \cup {"nan", "NaN"})

IsTrulyCategorical(t, j) ==
    LET col == Column(t, j)
        sample == SelectSeq(col, LAMBDA x : ~IsNA(x))
        total_values == Min2(SampleCap, Len(sample))
        numeric_convertible ==
            Cardinality({i \in 1..total_values : FloatOk(sample[i])})
    IN  /\ t.dtypes[j] = "object"
        /\ Len(sample) # 0
        /\ total_values > 0
        /\ ThresholdDen * numeric_convertible < ThresholdNum * total_values

\* a classification that takes every textual column with values
get_categorical_columns_by_dtype(t) ==
    IF IsEmpty(t) THEN <<>>
    ELSE Pick(t.cols,
              SeqOfSet({j \in 1..NCols(t) :
                           /\ t.dtypes[j] = "object"
                           /\ \E i \in 1..NRows(t) : ~IsNA(t.rows[i].c[j])}))

get_categorical_columns(t) ==
    IF IsEmpty(t) THEN <<>>
    ELSE Pick(t.cols, SeqOfSet({j \in 1..NCols(t) : IsTrulyCategorical(t, j)}))

(***************************************************************************)
(* A click: the button pressed in a pass (at most one) with the values of  *)
(* the widgets its handler reads.                                          *)
(***************************************************************************)
NoEdit == [del |-> FALSE, row |-> 0, col |-> 0, val |-> NA]

NoClick ==
    [btn |-> "none", action |-> "", rows_input |-> <<>>, cols |-> <<>>,
     col |-> "", old |-> "", new |-> "", method |-> "", edit |-> NoEdit]

(***************************************************************************)
(* ProcessingModule.render threads one table object through the handlers.  *)
(* h.t is the value of processed_df, h.inp the value of the object render  *)
(* was given, h.shared whether the two are one object, h.raised whether an *)
(* exception left render, h.fired whether the pressed button was reached.  *)
(***************************************************************************)
\* an assignment into the object the handler holds (df[col] = ...)
InPlace(h, newT) ==
    [h EXCEPT !.t = newT, !.inp = IF h.shared THEN newT ELSE h.inp]

\* the handler returns another object; render adopts it when it differs
NewObj(h, newT) == [h EXCEPT !.t = newT, !.shared = h.shared /\ newT = h.t]

Raise(h) == [h EXCEPT !.raised = TRUE]

\* st.button(...) of the handler was drawn and returned True
Fire(h) == [h EXCEPT !.fired = TRUE]

(***************************************************************************)
(* _handle_data_extraction                                                 *)
(***************************************************************************)
\* the indices read as 1-based positions
RemainingPositionsOneBased(n, indices) ==
    SeqOfSet({i \in 1..n : i \notin Range(indices)})

\* positions (1-based) of the rows left after deleting the 0-based indices
RemainingPositions(n, indices) ==
    SeqOfSet({i + 1 : i \in {k \in 0..(n - 1) : k \notin Range(indices)}})

IndexPositions(indices) == [i \in 1..Len(indices) |-> indices[i] + 1]

ExtractRows(t, action, rows_input) ==
    LET indices == parse_indices(rows_input, NRows(t)).indices
    IN  IF indices = <<>> THEN t
        ELSE IF action = "drop"
             THEN ILocRows(t, RemainingPositions(NRows(t), indices))
             ELSE ILocRows(t, IndexPositions(indices))

ExtractCols(t, action, selected_cols) ==
    IF action = "drop" THEN DropCols(t, Range(selected_cols))
    ELSE TakeCols(t, [i \in 1..Len(selected_cols) |-> ColPos(t, selected_cols[i])])

\* the widgets that must be set for the button to be drawn and read
RowsButton(t, click) ==
    click.btn = "apply_rows" /\ click.action \in {"drop", "keep"}
        /\ click.rows_input # <<>>

ColsButton(t, click) ==
    click.btn = "apply_cols" /\ click.action \in {"drop", "keep"}
        /\ click.cols # <<>> /\ Range(click.cols) \subseteq Range(t.cols)

handle_data_extraction(h, click) ==
    IF RowsButton(h.t, click)
    THEN NewObj(Fire(h), ExtractRows(h.t, click.action, click.rows_input))
    ELSE IF ColsButton(h.t, click)
    THEN NewObj(Fire(h), ExtractCols(h.t, click.action, click.cols))
    ELSE h

(***************************************************************************)
(* Order and statistics of cells.                                          *)
(***************************************************************************)
\* the strings of the model in Python's (code point) order
StrOrder ==
    <<"", " ", "0", "1", "2", "3", "4", "?", "N/A", "NA", "NULL", "NaN",
      "Unknown", "missing", "nan", "null", "x", "y", "z">>

StrRank(s) == CHOOSE i \in DOMAIN StrOrder : StrOrder[i] = s

CellLess(x, y) ==
    IF IsNum(x) /\ IsNum(y) THEN RatLess(x, y)
    ELSE IF IsStr(x) /\ IsStr(y) THEN StrRank(x.s) < StrRank(y.s)
    ELSE FALSE

\* numbers only, or strings only
Uniform(S) == (\A x \in S : IsNum(x)) \/ (\A x \in S : IsStr(x))

RECURSIVE SortCells(_)
SortCells(S) ==
    IF S = {} THEN <<>>
    ELSE LET m == CHOOSE x \in S : \A y \in S : ~CellLess(y, x)
         IN  <<m>> \o SortCells(S \ {m})

\* the non-missing cells of a column, in row order
NonNull(col) == SelectSeq(col, LAMBDA x : ~IsNA(x))

\* the distinct values of a sequence in first-seen order
RECURSIVE FirstSeen(_, _)
FirstSeen(s, acc) ==
    IF s = <<>> THEN acc
    ELSE FirstSeen(Tail(s),
                   IF Head(s) \in Range(acc) THEN acc ELSE Append(acc, Head(s)))

RECURSIVE SumCells(_)
SumCells(s) == IF s = <<>> THEN Num(0, 1) ELSE RatAdd(Head(s), SumCells(Tail(s)))

\* the values of a numeric sequence in ascending order, repetitions kept
RECURSIVE SortedNums(_)
SortedNums(s) ==
    IF s = <<>> THEN <<>>
    ELSE LET i == CHOOSE a \in DOMAIN s : \A b \in DOMAIN s : ~RatLess(s[b], s[a])
         IN  <<s[i]>> \o SortedNums(SubSeq(s, 1, i - 1) \o SubSeq(s, i + 1, Len(s)))

\* a mean that counts the missing cells in its divisor
MeanOverAllCells(col) ==
    IF NonNull(col) = <<>> THEN NA
    ELSE RatDiv(SumCells(NonNull(col)), Num(Len(col), 1))

\* Series.mean(): NaN for a column without values
Mean(col) ==
    LET v == NonNull(col)
    IN  IF v = <<>> THEN NA ELSE RatDiv(SumCells(v), Num(Len(v), 1))

\* Series.median()
Median(col) ==
    LET v == SortedNums(NonNull(col))
        n == Len(v)
    IN  IF n = 0 THEN NA
        ELSE IF n % 2 = 1 THEN v[(n + 1) \div 2]
        ELSE RatDiv(RatAdd(v[n \div 2], v[n \div 2 + 1]), Num(2, 1))

Count(col, x) == Cardinality({i \in DOMAIN col : col[i] = x})

\* Series.mode(): the most frequent values, sorted when they can be
Modes(col) ==
    LET v == NonNull(col)
        top == {x \in Range(v) : \A y \in Range(v) : Count(v, y) <= Count(v, x)}
    IN  IF Uniform(top) THEN SortCells(top)
        ELSE SelectSeq(FirstSeen(v, <<>>), LAMBDA x : x \in top)

(***************************************************************************)
(* _handle_value_replacement                                               *)
(***************************************************************************)
\* st.data_editor(df): the user's edit of one cell (the row set is fixed)
EditCell(t, edit) ==
    [t EXCEPT !.rows[edit.row].c[edit.col] = edit.val]

ManualButton(t, click) ==
    click.btn = "apply_manual" /\ ~click.edit.del
        /\ click.edit.row \in 1..NRows(t) /\ click.edit.col \in 1..NCols(t)

\* a replacement that overwrites every cell of the column
ReplaceEveryCell(col, old_value, new_value) ==
    [i \in DOMAIN col |-> Str(new_value)]

\* Series.replace(old_value, new_value) with two texts
ReplaceInColumn(col, old_value, new_value) ==
    [i \in DOMAIN col |-> IF col[i] = Str(old_value) THEN Str(new_value) ELSE col[i]]

\* (df[replace_column] == old_value).sum()
ReplaceCount(t, replace_column, old_value) ==
    Count(Column(t, ColPos(t, replace_column)), Str(old_value))

ReplaceValues(t, replace_column, old_value, new_value) ==
    LET j == ColPos(t, replace_column)
    IN  SetColumn(t, j, ReplaceInColumn(Column(t, j), old_value, new_value),
                  t.dtypes[j])

ReplacementButton(t, click) ==
    click.btn = "apply_replacement" /\ HasCol(t, click.col)

handle_value_replacement(h, click) ==
    IF ManualButton(h.t, click) THEN NewObj(Fire(h), EditCell(h.t, click.edit))
    ELSE IF ReplacementButton(h.t, click)
    THEN IF click.col # "" /\ click.old # ""
         THEN InPlace(Fire(h), ReplaceValues(h.t, click.col, click.old, click.new))
         ELSE Fire(h)
    ELSE h

(***************************************************************************)
(* _handle_scaling (MinMaxScaler)                                          *)
(***************************************************************************)
MinOf(v) == CHOOSE x \in Range(v) : \A y \in Range(v) : ~RatLess(y, x)

MaxOf(v) == CHOOSE x \in Range(v) : \A y \in Range(v) : ~RatLess(x, y)

\* MinMaxScaler().fit_transform of one column: NaN is ignored and kept, a
\* constant column scales to 0
MinMaxColumn(col) ==
    LET v == NonNull(col)
        lo == MinOf(v)
        span == RatSub(MaxOf(v), lo)
    IN  [i \in DOMAIN col |->
            IF IsNA(col[i]) THEN NA
            ELSE IF span.n = 0 THEN Num(0, 1)
            ELSE RatDiv(RatSub(col[i], lo), span)]

RECURSIVE ScaleColumns(_, _)
ScaleColumns(t, cols_to_scale) ==
    IF cols_to_scale = <<>> THEN t
    ELSE LET j == ColPos(t, Head(cols_to_scale))
         IN  ScaleColumns(SetColumn(t, j, MinMaxColumn(Column(t, j)), "float64"),
                          Tail(cols_to_scale))

\* fit_transform raises on an array without samples
ScalerRaises(t, cols_to_scale) == NRows(t) = 0

ScalingButton(t, click) ==
    /\ click.btn = "apply_scaling" /\ click.method = "MinMaxScaler"
    /\ get_numeric_columns(t) # <<>>
    /\ click.cols # <<>>
    /\ Range(click.cols) \subseteq Range(get_numeric_columns(t))

handle_scaling(h, click) ==
    IF ScalingButton(h.t, click)
    THEN IF ScalerRaises(h.t, click.cols) THEN Fire(h)
         ELSE InPlace(Fire(h), ScaleColumns(h.t, click.cols))
    ELSE h

(***************************************************************************)
(* _handle_missing_data                                                    *)
(***************************************************************************)
missing_indicators ==
    {"?", "NA", "N/A", "null", "NULL", "", " ", "nan", "NaN", "missing"}

IsIndicator(x) == IsStr(x) /\ x.s \in missing_indicators

\* df.replace(indicator, np.nan) for every indicator
Normalize(t) ==
    [t EXCEPT !.rows =
        [i \in 1..NRows(t) |->
            [id |-> t.rows[i].id,
             c  |-> [j \in 1..NCols(t) |->
                        IF IsIndicator(t.rows[i].c[j]) THEN NA ELSE t.rows[i].c[j]]]]]

\* a missing-data step that leaves the tokens where they are
KeepTokens(h) == h

\* lines 229-240: the cleaned copy replaces df when it holds more NaN
CleanMissing(h) ==
    IF MissingCount(Normalize(h.t)) > MissingCount(h.t)
    THEN NewObj(h, Normalize(h.t))
    ELSE h

\* missing_cols: the columns with at least one NaN, in column order
MissingCols(t) ==
    Pick(t.cols, SeqOfSet({j \in 1..NCols(t) :
                              \E i \in 1..NRows(t) : IsNA(t.rows[i].c[j])}))

\* DataFrame.dropna()
DropNaRows(t) ==
    ILocRows(t, SeqOfSet({i \in 1..NRows(t) :
                              \A j \in 1..NCols(t) : ~IsNA(t.rows[i].c[j])}))

\* the methods the selectbox offers for fill_column
FillMethods(t, fill_column) ==
    IF fill_column \in Range(get_numeric_columns(t))
    THEN {"mean", "median", "custom"}
    ELSE {"mode", "custom"}

\* lines 383-391
FillValue(t, fill_column, fill_method, custom_value) ==
    LET col == Column(t, ColPos(t, fill_column))
    IN  CASE fill_method = "mean"   -> Mean(col)
          [] fill_method = "median" -> Median(col)
          [] fill_method = "mode"   ->
                IF Len(Modes(col)) > 0 THEN Modes(col)[1] ELSE Str("Unknown")
          [] OTHER                  -> Str(custom_value)

\* Series.fillna(fill_value); filling with NaN changes nothing
FillNa(t, fill_column, fill_value) ==
    LET j == ColPos(t, fill_column)
        col == Column(t, j)
        filled == [i \in DOMAIN col |->
                      IF IsNA(col[i]) THEN fill_value ELSE col[i]]
        dtype ==
            IF IsNA(fill_value) \/ ~(\E i \in DOMAIN col : IsNA(col[i]))
            THEN t.dtypes[j]
            ELSE IF IsStr(fill_value) THEN "object"
            ELSE IF t.dtypes[j] = "object" THEN "object"
            ELSE "float64"
    IN  SetColumn(t, j, filled, dtype)

\* Python's None: no branch of lines 383-391 yields it (mean() and median()
\* of a column without values are NaN, a float)
None == [k |-> "none", n |-> 0, d |-> 1, s |-> ""]

\* lines 393-397: the message shown for fill_value
FillReport(fill_value) == IF fill_value # None THEN "success" ELSE "error"

FillMissing(t, click) ==
    FillNa(t, click.col, FillValue(t, click.col, click.method, click.new))

RemoveRowsButton(t, click) == click.btn = "remove_rows_missing"

RemoveColsButton(t, click) ==
    click.btn = "remove_cols_missing" /\ click.cols # <<>>
        /\ Range(click.cols) \subseteq Range(MissingCols(t))

FillButton(t, click) ==
    click.btn = "fill_missing" /\ click.col \in Range(MissingCols(t))
        /\ click.method \in FillMethods(t, click.col)

handle_missing_data(h0, click) ==
    LET h == CleanMissing(h0)
    IN  IF MissingCols(h.t) = <<>> THEN h
        ELSE IF RemoveRowsButton(h.t, click) THEN NewObj(Fire(h), DropNaRows(h.t))
        ELSE IF RemoveColsButton(h.t, click)
        THEN NewObj(Fire(h), DropCols(h.t, Range(click.cols)))
        ELSE IF FillButton(h.t, click)
        THEN InPlace(Fire(h), FillMissing(h.t, click))
        ELSE h

(***************************************************************************)
(* _handle_duplicates                                                      *)
(***************************************************************************)
\* the column positions compared: the subset, or every column
SubsetPositions(t, subset_cols) ==
    IF subset_cols = <<>> THEN 1..NCols(t)
    ELSE {ColPos(t, subset_cols[i]) : i \in DOMAIN subset_cols}

SameOn(t, js, a, b) == \A j \in js : t.rows[a].c[j] = t.rows[b].c[j]

\* DataFrame.duplicated().sum()
DuplicatesCount(t) ==
    Cardinality({i \in 1..NRows(t) :
                    \E a \in 1..(i - 1) : SameOn(t, 1..NCols(t), a, i)})

\* a deduplication that keeps the last row of each group whatever keep is
DropDuplicatesKeepLast(t, subset_cols, keep) ==
    ILocRows(t, SeqOfSet({i \in 1..NRows(t) :
                    ~\E a \in (i + 1)..NRows(t) :
                        SameOn(t, SubsetPositions(t, subset_cols), a, i)}))

\* DataFrame.drop_duplicates(subset, keep)
DropDuplicates(t, subset_cols, keep) ==
    LET js == SubsetPositions(t, subset_cols)
        kept(i) ==
            CASE keep = "first" -> ~\E a \in 1..(i - 1) : SameOn(t, js, a, i)
              [] keep = "last"  -> ~\E a \in (i + 1)..NRows(t) : SameOn(t, js, a, i)
              [] OTHER          -> ~\E a \in 1..NRows(t) : a # i /\ SameOn(t, js, a, i)
    IN  ILocRows(t, SeqOfSet({i \in 1..NRows(t) : kept(i)}))

DuplicatesButton(t, click) ==
    /\ click.btn = "remove_duplicates"
    /\ DuplicatesCount(t) > 0
    /\ Range(click.cols) \subseteq Range(t.cols)
    /\ click.method \in {"first", "last", "false"}

handle_duplicates(h, click) ==
    IF DuplicatesButton(h.t, click)
    THEN NewObj(Fire(h), DropDuplicates(h.t, click.cols, click.method))
    ELSE h

(***************************************************************************)
(* _handle_encoding                                                        *)
(***************************************************************************)
\* df[name] = vals: a new last column, or the existing one overwritten
AssignColumn(t, name, vals, dtype) ==
    IF HasCol(t, name) THEN SetColumn(t, ColPos(t, name), vals, dtype)
    ELSE [cols   |-> Append(t.cols, name),
          dtypes |-> Append(t.dtypes, dtype),
          rows   |-> [i \in 1..NRows(t) |->
                         [id |-> t.rows[i].id, c |-> Append(t.rows[i].c, vals[i])]]]

\* pd.concat([df, one column], axis=1): always a new last column
ConcatColumn(t, name, vals, dtype) ==
    [cols   |-> Append(t.cols, name),
     dtypes |-> Append(t.dtypes, dtype),
     rows   |-> [i \in 1..NRows(t) |->
                    [id |-> t.rows[i].id, c |-> Append(t.rows[i].c, vals[i])]]]

\* the text of a value inside a generated column label
CellText(x) ==
    IF IsStr(x) THEN x.s
    ELSE IF x.d = 1 THEN ToString(x.n) \o ".0"
    ELSE ToString(x.n) \o "/" \o ToString(x.d)

\* the distinct non-missing values of a column: sorted, or in first-seen
\* order when numbers and strings are mixed
Levels(col) ==
    IF Uniform(Range(NonNull(col))) THEN SortCells(Range(NonNull(col)))
    ELSE FirstSeen(NonNull(col), <<>>)

RECURSIVE ConcatDummies(_, _, _, _)
ConcatDummies(t, col, name, levels) ==
    IF levels = <<>> THEN t
    ELSE ConcatDummies(
            ConcatColumn(t, name \o "_" \o CellText(Head(levels)),
                         [i \in DOMAIN col |->
                             IF col[i] = Head(levels) THEN Num(1, 1) ELSE Num(0, 1)],
                         "bool"),
            col, name, Tail(levels))

\* a one-hot encoding that keeps the column it encoded
OneHotKeepingColumn(t, name) ==
    ConcatDummies(t, Column(t, ColPos(t, name)), name,
                  Levels(Column(t, ColPos(t, name))))

\* one column of _apply_one_hot_encoding: get_dummies, concat, drop
OneHotColumn(t, name) ==
    LET col == Column(t, ColPos(t, name))
    IN  DropCols(ConcatDummies(t, col, name, Levels(col)), {name})

\* LabelEncoder.fit_transform raises TypeError on numbers mixed with strings
LabelEncoderRaises(col) == ~Uniform(Range(NonNull(col)))

\* classes in the order in which the values are met
ClassesFirstSeen(col) ==
    FirstSeen(NonNull(col), <<>>)
        \o (IF \E i \in DOMAIN col : IsNA(col[i]) THEN <<NA>> ELSE <<>>)

\* LabelEncoder.classes_: the sorted distinct values, NaN last
Classes(col) ==
    SortCells(Range(NonNull(col)))
        \o (IF \E i \in DOMAIN col : IsNA(col[i]) THEN <<NA>> ELSE <<>>)

\* codes that are the row numbers: distinct for equal values
LabelCodesByRow(col) == [i \in DOMAIN col |-> i - 1]

\* LabelEncoder.fit_transform: the position of each value in classes_
LabelCodes(col) ==
    [i \in DOMAIN col |->
        (CHOOSE c \in DOMAIN Classes(col) : Classes(col)[c] = col[i]) - 1]

\* a label encoding whose column keeps the dtype it had
LabelColumnKeepingDtype(t, name) ==
    SetColumn(t, ColPos(t, name),
              [i \in 1..NRows(t) |->
                  Num(LabelCodes(Column(t, ColPos(t, name)))[i], 1)],
              t.dtypes[ColPos(t, name)])

LabelColumn(t, name) ==
    LET j == ColPos(t, name)
        codes == LabelCodes(Column(t, j))
    IN  SetColumn(t, j, [i \in DOMAIN codes |-> Num(codes[i], 1)], "int64")

\* a width that does not follow the largest code
FixedWidth(m) == 2

\* len(bin(max_val)[2:])
RECURSIVE BitLength(_)
BitLength(m) == IF m <= 1 THEN 1 ELSE 1 + BitLength(m \div 2)

RECURSIVE Pow2(_)
Pow2(i) == IF i = 0 THEN 1 ELSE 2 * Pow2(i - 1)

MaxCode(codes) == CHOOSE m \in Range(codes) : \A c \in Range(codes) : c <= m

RECURSIVE AssignBits(_, _, _, _, _)
AssignBits(t, name, codes, i, n_bits) ==
    IF i >= n_bits THEN t
    ELSE AssignBits(
            AssignColumn(t, name \o "_bit_" \o ToString(i),
                         [r \in DOMAIN codes |-> Num((codes[r] \div Pow2(i)) % 2, 1)],
                         "int64"),
            name, codes, i + 1, n_bits)

\* one column of _apply_binary_encoding, before the column is dropped
BinaryBits(t, name) ==
    LET codes == LabelCodes(Column(t, ColPos(t, name)))
    IN  AssignBits(t, name, codes, 0, BitLength(MaxCode(codes)))

\* The three encoders walk the selected columns in order.  One-hot rebinds
\* df to a new object per column; label assigns in place; binary assigns the
\* bit columns in place and then rebinds df to the table without the column.
RECURSIVE ApplyEncoding(_, _, _)
ApplyEncoding(h, method, columns) ==
    IF columns = <<>> \/ h.raised THEN h
    ELSE LET name == Head(columns)
             col == Column(h.t, ColPos(h.t, name))
         IN  IF ~HasCol(h.t, name) THEN Raise(h)
             ELSE IF method = "onehot"
             THEN ApplyEncoding(NewObj(h, OneHotColumn(h.t, name)), method,
                                Tail(columns))
             ELSE IF LabelEncoderRaises(col) THEN Raise(h)
             ELSE IF method = "label"
             THEN ApplyEncoding(InPlace(h, LabelColumn(h.t, name)), method,
                                Tail(columns))
             ELSE LET withBits == InPlace(h, BinaryBits(h.t, name))
                  IN  ApplyEncoding(NewObj(withBits, DropCols(withBits.t, {name})),
                                    method, Tail(columns))

EncodingButton(t, click) ==
    /\ click.btn = "apply_encoding"
    /\ click.method \in {"onehot", "binary", "label"}
    /\ get_categorical_columns(t) # <<>>
    /\ click.cols # <<>>
    /\ Range(click.cols) \subseteq Range(get_categorical_columns(t))

handle_encoding(h, click) ==
    IF EncodingButton(h.t, click)
    THEN ApplyEncoding(Fire(h), click.method, click.cols)
    ELSE h

(***************************************************************************)
(* ProcessingModule.render                                                 *)
(***************************************************************************)
\* a render that works on the object it is given
NoCopy == TRUE

\* processed_df = df.copy(): another object with the same value
CopyShares == FALSE

\* the statements of render run in order, and none runs after an exception
Run(h, r) == IF h.raised THEN h ELSE r

\* lines 25-26: render works on copies of the table it is given
Copies(df) ==
    [t |-> df, shared |-> CopyShares, inp |-> df, raised |-> FALSE,
     fired |-> FALSE]

\* lines 29-33
AfterExtraction(df, click) ==
    The({handle_data_extraction(h, click) : h \in {Copies(df)}})

\* lines 35-39
AfterReplacement(df, click) ==
    The({Run(h, handle_value_replacement(h, click)) :
         h \in {AfterExtraction(df, click)}})

\* lines 41-45
AfterScaling(df, click) ==
    The({Run(h, handle_scaling(h, click)) :
         h \in {AfterReplacement(df, click)}})

\* lines 47-51
AfterMissing(df, click) ==
    The({Run(h, handle_missing_data(h, click)) :
         h \in {AfterScaling(df, click)}})

\* lines 53-57
AfterDuplicates(df, click) ==
    The({Run(h, handle_duplicates(h, click)) :
         h \in {AfterMissing(df, click)}})

\* lines 59-63
AfterEncoding(df, click) ==
    The({Run(h, handle_encoding(h, click)) :
         h \in {AfterDuplicates(df, click)}})

\* render(df): t is the table returned, inp the value of the object passed in
\* after the call, raised whether an exception left render instead
render(df, click) ==
    IF IsEmpty(df)
    THEN [t |-> df, shared |-> TRUE, inp |-> df, raised |-> FALSE,
          fired |-> FALSE]
    ELSE AfterEncoding(df, click)

(***************************************************************************)
(* app.py main(): one pass of the script.  The session state is            *)
(* [original_data, current_data, uploaded_file_name].                      *)
(***************************************************************************)
\* lines 158-163
\* a pass that takes every selected file for a new one
AlwaysChanged(sess, f) == TRUE

FileChanged(sess, file) ==
    \/ sess.uploaded_file_name = EmptyOpt
    \/ sess.uploaded_file_name[1] # file.name
    \/ sess.current_data = EmptyOpt

\* lines 169-172: two copies of the re-indexed table, and the file's name
StoreUpload(sess, df, file) ==
    [original_data      |-> Some(ResetIndex(df)),
     current_data       |-> Some(ResetIndex(df)),
     uploaded_file_name |-> Some(file.name)]

\* a removal that forgets to clear original_data
ClearUploadKeepingOriginal(sess) ==
    [sess EXCEPT !.current_data = EmptyOpt, !.uploaded_file_name = EmptyOpt]

\* lines 178-182
ClearUpload(sess) ==
    [original_data |-> EmptyOpt, current_data |-> EmptyOpt,
     uploaded_file_name |-> EmptyOpt]

\* lines 156-182
UploadSection(sess, up) ==
    IF up # EmptyOpt
    THEN IF FileChanged(sess, up[1]) /\ load_data(up[1]) # EmptyOpt
         THEN StoreUpload(sess, load_data(up[1])[1], up[1])
         ELSE sess
    ELSE ClearUpload(sess)

\* an assignment that stores the table as original_data too
ApplyCurrentAndOriginal(sess, t) ==
    [sess EXCEPT !.current_data = Some(t), !.original_data = Some(t)]

\* st.session_state['current_data'] = t (lines 249 and 267)
ApplyCurrent(sess, t) == [sess EXCEPT !.current_data = Some(t)]

\* lines 214-215: a re-indexed copy of original_data
ResetCurrent(sess) ==
    [sess EXCEPT !.current_data = Some(ResetIndex(sess.original_data[1]))]

\* st.data_editor(df_with_index, num_rows="dynamic") after the user's edit:
\* one cell changed, or one row deleted; with NoEdit the table as shown.
\* (The Index column is added for display and dropped again at line 247.)
EditorResult(t, edit) ==
    IF edit.del
    THEN ILocRows(t, SeqOfSet((1..NRows(t)) \ {edit.row}))
    ELSE IF edit.row \in 1..NRows(t) /\ edit.col \in 1..NCols(t)
    THEN EditCell(t, edit)
    ELSE t

\* lines 258-271: the tabs; an exception leaving render ends the pass before
\* the assignment of line 267
TabsSection(sess, click) ==
    The({[sess      |-> IF r.raised
                        THEN [sess EXCEPT !.current_data = Some(r.inp)]
                        ELSE ApplyCurrent(sess, r.t),
          rendered  |-> TRUE,
          raised    |-> r.raised,
          fired     |-> r.fired,
          argBefore |-> sess.current_data,
          argAfter  |-> Some(r.inp)] :
         r \in {render(sess.current_data[1], click)}})

Unrendered(sess) ==
    [sess |-> sess, rendered |-> FALSE, raised |-> FALSE, fired |-> FALSE,
     argBefore |-> EmptyOpt, argAfter |-> EmptyOpt]

\* lines 211-217 and 244-253: the buttons above the tabs.  Reset stores a
\* re-indexed copy of original_data, refresh the edited table when it
\* differs from the one shown; both then call st.rerun(), which starts the
\* script again with no button pressed, beginning with the upload section.
Reruns(sess, click) ==
    \/ click.btn = "reset"
    \/ /\ click.btn = "refresh"
       /\ EditorResult(sess.current_data[1], click.edit) # sess.current_data[1]

EditorSection(sess, up, click) ==
    IF click.btn = "reset"
    THEN UploadSection(ResetCurrent(sess), up)
    ELSE IF Reruns(sess, click)
    THEN UploadSection(ApplyCurrent(sess,
             EditorResult(sess.current_data[1], click.edit)), up)
    ELSE sess

\* the buttons drawn inside the tabs are the only ones the handlers see
TabClick(click) ==
    IF click.btn \in {"reset", "refresh"} THEN NoClick ELSE click

\* the tables the displays of a pass p are computed from: the header
\* metrics (lines 186-199) and the statistics tab (line 262) read
\* current_data before the processing tab assigns it (line 267), the
\* visualization tab (line 271) after
MetricsTable(p) == p.argBefore

StatsTable(p) == p.argBefore

VizTable(p) == p.sess.current_data

\* a pass of main() with the uploader holding up and the button of click
\* pressed (NoClick: none), followed by the pass st.rerun() starts, if any
MainPass(sess, up, click) ==
    The({IF s1.current_data = EmptyOpt THEN Unrendered(s1)
         ELSE The({IF s2.current_data = EmptyOpt THEN Unrendered(s2)
                   ELSE [TabsSection(s2, TabClick(click)) EXCEPT !.fired =
                            @ \/ click.btn \in {"reset", "refresh"}] :
                   s2 \in {EditorSection(s1, up, click)}}) :
         s1 \in {UploadSection(sess, up)}})

(***************************************************************************)
(* The state machine: one action per user interaction, each a whole pass.  *)
(***************************************************************************)
VARIABLES
    uploaded,            \* the file the uploader widget holds (optional)
    original_data,       \* st.session_state['original_data'] (optional)
    current_data,        \* st.session_state['current_data'] (optional)
    uploaded_file_name,  \* st.session_state['uploaded_file_name'] (optional)
    last,                \* what the last pass did (history)
    passes               \* the number of passes run so far

vars ==
    <<uploaded, original_data, current_data, uploaded_file_name, last, passes>>

Sess ==
    [original_data |-> original_data, current_data |-> current_data,
     uploaded_file_name |-> uploaded_file_name]

\* the number of passes (user interactions) of a run
MaxPasses == 3

\* the largest row number typed into an index expression
MaxIdx == 2

\* the most columns selected in one multiselect
MaxSel == 2

D(k) == ToString(k)

\* the index expressions typed: single indices, ranges, a valid part beside
\* a malformed one, malformed parts alone, and an index named twice, out of
\* order and behind a blank ("1, 0-1")
RowsInputs ==
    {<<D(k)>> : k \in 0..MaxIdx}
        \cup {<<D(0), "-", D(k)>> : k \in 1..MaxIdx}
        \cup {<<D(k), ",", "x">> : k \in 0..MaxIdx}
        \cup {<<D(1), "-", ",", D(0)>>, <<"x">>, <<D(1), "-">>,
              <<D(1), ",", " ", D(0), "-", D(1)>>}

\* the selections of a multiselect over the options S, in selection order
ColSeqs(S) ==
    {sel \in UNION {[1..n -> S] : n \in 1..MaxSel} :
        \A a, b \in DOMAIN sel : a # b => sel[a] # sel[b]}

OldValues == {"", "x"}

NewValues == {"", "z"}

\* the edits made in a data editor: a text cell overwritten
CellEdits(t) ==
    {e \in {[del |-> FALSE, row |-> i, col |-> j, val |-> Str("z")] :
                i \in 1..NRows(t), j \in 1..NCols(t)} :
        t.dtypes[e.col] = "object"}

\* the fill methods, with the text of the custom-value input
FillChoices ==
    {<<"mean", "">>, <<"median", "">>, <<"mode", "">>}
        \cup {<<"custom", v>> : v \in NewValues}

RowDeletes(t) ==
    {[del |-> TRUE, row |-> i, col |-> 0, val |-> NA] : i \in 1..NRows(t)}

Init ==
    /\ uploaded = EmptyOpt
    /\ original_data = EmptyOpt
    /\ current_data = EmptyOpt
    /\ uploaded_file_name = EmptyOpt
    /\ last = [kind |-> "init", click |-> NoClick, loadTried |-> FALSE,
               loadOk |-> FALSE, rendered |-> FALSE, raised |-> FALSE,
               intact |-> TRUE, changed |-> FALSE, had |-> FALSE]
    /\ passes = 0

\* the pass p, run with the uploader holding up and click pressed
Commit(p, up, click, kind) ==
    LET tried == up # EmptyOpt /\ FileChanged(Sess, up[1])
    IN  /\ passes < MaxPasses
        /\ passes' = passes + 1
        /\ uploaded' = up
        /\ original_data' = p.sess.original_data
        /\ current_data' = p.sess.current_data
        /\ uploaded_file_name' = p.sess.uploaded_file_name
        /\ last' = [kind |-> kind, click |-> click, loadTried |-> tried,
                    loadOk |-> tried /\ load_data(up[1]) # EmptyOpt,
                    rendered |-> p.rendered, raised |-> p.raised,
                    intact |-> p.argAfter = p.argBefore,
                    changed |-> p.rendered /\ p.sess.current_data # p.argBefore,
                    had |-> current_data # EmptyOpt]

DoPass(up, click, kind) ==
    \E p \in {MainPass(Sess, up, click)} : Commit(p, up, click, kind)

\* a button can be pressed only where the pass draws and reads it
Press(click) ==
    /\ passes < MaxPasses
    /\ current_data # EmptyOpt
    /\ \E c \in {click} :
          \E p \in {MainPass(Sess, uploaded, c)} :
              p.fired /\ Commit(p, uploaded, c, c.btn)

Cur == current_data[1]

Upload ==
    \E f \in {g \in Files : Some(g) # uploaded} :
        DoPass(Some(f), NoClick, "upload")

RemoveUpload == uploaded # EmptyOpt /\ DoPass(EmptyOpt, NoClick, "remove")

\* a widget value changes: a pass without a button
WidgetChange ==
    /\ passes < MaxPasses
    /\ DoPass(uploaded, NoClick, "widget")

Reset ==
    /\ current_data # EmptyOpt
    /\ Press([NoClick EXCEPT !.btn = "reset"])

Refresh ==
    /\ current_data # EmptyOpt
    /\ \E e \in CellEdits(Cur) \cup RowDeletes(Cur) \cup {NoEdit} :
          Press([NoClick EXCEPT !.btn = "refresh", !.edit = e])

ApplyRows ==
    /\ current_data # EmptyOpt
    /\ \E a \in {"drop", "keep"}, inp \in RowsInputs :
          Press([NoClick EXCEPT !.btn = "apply_rows", !.action = a,
                                !.rows_input = inp])

ApplyCols ==
    /\ current_data # EmptyOpt
    /\ \E a \in {"drop", "keep"}, sel \in ColSeqs(Range(Cur.cols)) :
          Press([NoClick EXCEPT !.btn = "apply_cols", !.action = a, !.cols = sel])

ApplyManual ==
    /\ current_data # EmptyOpt
    /\ \E e \in CellEdits(Cur) :
          Press([NoClick EXCEPT !.btn = "apply_manual", !.edit = e])

ApplyReplacement ==
    /\ current_data # EmptyOpt
    /\ \E c \in Range(Cur.cols), o \in OldValues, n \in NewValues :
          Press([NoClick EXCEPT !.btn = "apply_replacement", !.col = c,
                                !.old = o, !.new = n])

ApplyScaling ==
    /\ current_data # EmptyOpt
    /\ \E sel \in ColSeqs(Range(Cur.cols)) :
          Press([NoClick EXCEPT !.btn = "apply_scaling", !.cols = sel,
                                !.method = "MinMaxScaler"])

RemoveRowsMissing ==
    /\ current_data # EmptyOpt
    /\ Press([NoClick EXCEPT !.btn = "remove_rows_missing"])

RemoveColsMissing ==
    /\ current_data # EmptyOpt
    /\ \E sel \in ColSeqs(Range(Cur.cols)) :
          Press([NoClick EXCEPT !.btn = "remove_cols_missing", !.cols = sel])

FillMissingClick ==
    /\ current_data # EmptyOpt
    /\ \E c \in Range(Cur.cols), f \in FillChoices :
          Press([NoClick EXCEPT !.btn = "fill_missing", !.col = c,
                                !.method = f[1], !.new = f[2]])

RemoveDuplicates ==
    /\ current_data # EmptyOpt
    /\ \E sel \in ColSeqs(Range(Cur.cols)) \cup {<<>>},
          k \in {"first", "last", "false"} :
          Press([NoClick EXCEPT !.btn = "remove_duplicates", !.cols = sel,
                                !.method = k])

ApplyEncodingClick ==
    /\ current_data # EmptyOpt
    /\ \E sel \in ColSeqs(Range(Cur.cols)), m \in {"onehot", "binary", "label"} :
          Press([NoClick EXCEPT !.btn = "apply_encoding", !.cols = sel,
                                !.method = m])

Next ==
    \/ Upload
    \/ RemoveUpload
    \/ WidgetChange
    \/ Reset
    \/ Refresh
    \/ ApplyRows
    \/ ApplyCols
    \/ ApplyManual
    \/ ApplyReplacement
    \/ ApplyScaling
    \/ RemoveRowsMissing
    \/ RemoveColsMissing
    \/ FillMissingClick
    \/ RemoveDuplicates
    \/ ApplyEncodingClick

Spec == Init /\ [][Next]_vars

(***************************************************************************)
(* Properties.                                                             *)
(***************************************************************************)
\* the buttons that apply a transform operation or a manual edit
TransformKinds ==
    {"refresh", "apply_rows", "apply_cols", "apply_manual",
     "apply_replacement", "apply_scaling", "remove_rows_missing",
     "remove_cols_missing", "fill_missing", "remove_duplicates",
     "apply_encoding"}

\* the table a successful upload of file f stores
Loaded(f) == Some(ResetIndex(load_data(f)[1]))

\* C1: a pass that applies a transform operation or a manual edit leaves
\* original_data as it was; original_data changes only in a pass whose upload
\* section loaded a file successfully or found the upload removed.
C1_OriginalWrittenOnlyByUpload ==
    [][/\ last'.kind \in TransformKinds => original_data' = original_data
       /\ original_data' # original_data =>
              last'.loadOk \/ uploaded' = EmptyOpt]_vars

\* a transform changed current_data while original_data still holds the
\* table loaded from the file
C1_Witness ==
    /\ last.kind \in TransformKinds
    /\ last.changed
    /\ uploaded # EmptyOpt
    /\ load_data(uploaded[1]) # EmptyOpt
    /\ original_data = Loaded(uploaded[1])
    /\ current_data # original_data

\* the columns and cell values of a table, without row identities and dtypes
Content(t) ==
    [cols |-> t.cols, cells |-> [i \in 1..NRows(t) |-> t.rows[i].c]]

\* C2: after a pass in which reset was pressed, current_data equals
\* original_data in rows, columns and cell values.
C2_ResetRestoresOriginal ==
    last.kind = "reset" =>
        Content(current_data[1]) = Content(original_data[1])

\* C3: in a pass in which the uploader holds a file different from the one
\* before, in name or in content, and the file parses, original_data becomes
\* the newly parsed table and current_data the table rendered from it.
C3_DifferentFileReplacesBoth ==
    [][(/\ uploaded' # uploaded
        /\ uploaded' # EmptyOpt
        /\ load_data(uploaded'[1]) # EmptyOpt) =>
            /\ original_data' = Loaded(uploaded'[1])
            /\ current_data' = Some(Normalize(Loaded(uploaded'[1])[1]))]_vars

\* the pass just run tried to load a newly uploaded file and load_data
\* returned no table
FailedUpload(l) == l.kind = "upload" /\ l.loadTried /\ ~l.loadOk

\* C4: a pass whose upload fails to parse leaves original_data,
\* current_data and the recorded upload name exactly as they were.
C4_FailedUploadChangesNothing ==
    [][FailedUpload(last') =>
           UNCHANGED <<original_data, current_data, uploaded_file_name>>]_vars

\* C5: original_data and current_data are both absent or both present, the
\* upload name is recorded exactly when they are present, and while the
\* uploader holds no file both are absent.
C5_BothOrNeither ==
    /\ original_data = EmptyOpt <=> current_data = EmptyOpt
    /\ uploaded_file_name = EmptyOpt <=> current_data = EmptyOpt
    /\ uploaded = EmptyOpt =>
           original_data = EmptyOpt /\ current_data = EmptyOpt

\* the upload was removed from a session that held tables
C5_Witness ==
    /\ last.kind = "remove"
    /\ last.had
    /\ original_data = EmptyOpt
    /\ current_data = EmptyOpt
    /\ uploaded_file_name = EmptyOpt

\* the pass just run pressed the rows button with the single row number k
\* and the given action
RowsPass(l, action, k) ==
    /\ l.kind = "apply_rows"
    /\ l.click.action = action
    /\ l.click.rows_input = <<D(k)>>

\* C6: a row number k typed into the row extraction denotes the row whose
\* identity is k: while such a row exists, deleting k removes exactly that
\* row and keeping k keeps exactly that row.
C6_RowNumberDenotesIdentity ==
    [][\A k \in 0..MaxIdx :
          (current_data # EmptyOpt /\ k \in Range(Ids(current_data[1]))) =>
              /\ RowsPass(last', "drop", k) =>
                     Range(Ids(current_data'[1])) =
                         Range(Ids(current_data[1])) \ {k}
              /\ RowsPass(last', "keep", k) =>
                     Range(Ids(current_data'[1])) = {k}]_vars

\* the identities 0..n-1 in order
Sequential(n) == [i \in 1..n |-> i - 1]

\* the pass just run removed rows: a row extraction, drop rows with missing
\* values, deduplication, or a refresh after a row was deleted in the editor
RowRemoval(l) ==
    \/ l.kind \in {"apply_rows", "remove_rows_missing", "remove_duplicates"}
    \/ l.kind = "refresh" /\ l.click.edit.del

\* C7: a successful upload and a reset leave current_data with the row
\* identities 0..n-1; every other pass keeps identities, so the identities
\* after it are among those before it, and after a row removal every
\* surviving row is a row of the table before, with the identity it had.
C7_IdentitiesKeptExceptUploadReset ==
    [][current_data' # EmptyOpt =>
          /\ (last'.loadOk \/ last'.kind = "reset") =>
                 Ids(current_data'[1]) = Sequential(NRows(current_data'[1]))
          /\ (current_data # EmptyOpt /\ ~last'.loadOk
                  /\ last'.kind # "reset") =>
                 /\ Range(Ids(current_data'[1]))
                        \subseteq Range(Ids(current_data[1]))
                 /\ RowRemoval(last') =>
                        Range(current_data'[1].rows) \subseteq
                            Range(Normalize(current_data[1]).rows)]_vars

\* a row removal left a gap in the identities of current_data
C7_Witness ==
    /\ RowRemoval(last)
    /\ last.changed
    /\ current_data # EmptyOpt
    /\ NRows(current_data[1]) > 0
    /\ Ids(current_data[1]) # Sequential(NRows(current_data[1]))

\* the parts of an index expression that are malformed: a token that is no
\* integer, or a range that is not two integers
Malformed(part) == ParsePart(part, 0).err \in {"index", "range"}

RECURSIVE Join(_, _)
Join(parts, sep) ==
    IF parts = <<>> THEN <<>>
    ELSE IF Len(parts) = 1 THEN parts[1]
    ELSE parts[1] \o <<sep>> \o Join(Tail(parts), sep)

\* the expression without its malformed parts
WellFormedParts(expr) ==
    Join(SelectSeq(Split(expr, ","), LAMBDA p : ~Malformed(p)), ",")

\* the expression has a malformed part beside parts that select rows of t
MalformedBesideValid(expr, t) ==
    /\ \E i \in DOMAIN Split(expr, ",") : Malformed(Split(expr, ",")[i])
    /\ parse_indices(WellFormedParts(expr), NRows(t)).indices # <<>>

NoRowSelected(l, t) ==
    /\ l.kind = "apply_rows"
    /\ parse_indices(l.click.rows_input, NRows(t)).indices = <<>>

\* C9: a pass whose operation fails, by an exception or by a
\* reported error, leaves current_data exactly as it was.
C9_FailureChangesNothing ==
    [][(/\ current_data # EmptyOpt
        /\ last'.raised \/ NoRowSelected(last', current_data[1])) =>
            current_data' = current_data]_vars


\* the buttons whose operation assigns into the table it works on
InPlaceKinds ==
    {"apply_replacement", "apply_scaling", "fill_missing", "apply_encoding"}

\* C10: after every pass that called ProcessingModule.render, the table
\* object passed to it equals its value before the call, whichever operation
\* the pass triggered.
C10_RenderLeavesInputIntact == last.rendered => last.intact

\* an operation that assigns in place changed the table render returned,
\* and the table passed in is as it was
C10_Witness ==
    /\ last.kind \in InPlaceKinds
    /\ last.rendered
    /\ last.changed
    /\ last.intact

\* the parts of an index expression, stripped
Parts(expr) == [i \in DOMAIN Split(expr, ",") |-> Strip(Split(expr, ",")[i])]

\* part is a single integer
IsSingle(part) == "-" \notin Range(part) /\ IntOk(part)

\* part is a range of two integers
IsRange(part) ==
    /\ "-" \in Range(part)
    /\ Len(Split(part, "-")) = 2
    /\ IntOk(Split(part, "-")[1])
    /\ IntOk(Split(part, "-")[2])

\* the indices the expression denotes in a table of n rows: the single
\* indices inside 0..n-1 and, for each range, max(0,start)..min(n-1,end)
Denoted(expr, n) ==
    {k \in 0..(n - 1) :
        \E i \in DOMAIN Parts(expr) :
            \/ IsSingle(Parts(expr)[i]) /\ IntOf(Parts(expr)[i]) = k
            \/ /\ IsRange(Parts(expr)[i])
               /\ Max2(0, IntOf(Split(Parts(expr)[i], "-")[1])) <= k
               /\ k <= Min2(n - 1, IntOf(Split(Parts(expr)[i], "-")[2]))}

\* the single indices of the expression outside 0..n-1
OutOfRange(expr, n) ==
    {i \in DOMAIN Parts(expr) :
        IsSingle(Parts(expr)[i]) /\ IntOf(Parts(expr)[i]) \notin 0..(n - 1)}

\* the result of parse_indices is as C11 says for expr and n
ParsedAsDenoted(expr, n) ==
    LET r == parse_indices(expr, n)
    IN  /\ \A i \in 1..(Len(r.indices) - 1) : r.indices[i] < r.indices[i + 1]
        /\ Range(r.indices) = Denoted(expr, n)
        /\ Cardinality({i \in DOMAIN r.errors : r.errors[i] = "out_of_range"})
               = Cardinality(OutOfRange(expr, n))
        /\ Len(r.errors) =
               Cardinality({i \in DOMAIN Parts(expr) :
                               ~IsRange(Parts(expr)[i])
                                   /\ (IsSingle(Parts(expr)[i]) =>
                                           i \in OutOfRange(expr, n))})

\* C11: for the expression typed into the row extraction and the length n
\* of the table, parse_indices returns a strictly ascending list whose
\* elements are exactly the in-range single indices and the clamped ranges
\* of the expression; each out-of-range single index is reported and
\* omitted, and a well-formed range reports no error.
C11_ParseIndicesDenotes ==
    [][last'.kind = "apply_rows" =>
           ParsedAsDenoted(last'.click.rows_input, NRows(current_data[1]))]_vars

\* "1, 0-1" was applied to a table, and "2" to a table of two rows
C11_Witness ==
    /\ last.kind = "apply_rows"
    /\ last.click.action = "keep"
    /\ last.click.rows_input = <<"1", ",", " ", "0", "-", "1">>
    /\ last.changed
    /\ Ids(current_data[1]) = <<0, 1>>

\* the rows of t at the 0-based positions of the set ks, in the order of t
RowsAt(t, ks) ==
    [i \in 1..Cardinality(ks) |-> t.rows[SeqOfSet(ks)[i] + 1]]

\* the indices the row extraction of pass l selects in table t
Selected(l, t) == Range(parse_indices(l.click.rows_input, NRows(t)).indices)

\* C12: a row extraction whose expression selects the index set S (valid and
\* unique, as parse_indices returns it) of a table of n rows: with "drop" the
\* result has n - |S| rows, which are the rows outside S in their order; with
\* "keep" it has the |S| rows of S; the columns are those of the table.
C12_ExtractionRemovesOrKeepsSelected ==
    [][(last'.kind = "apply_rows" /\ Selected(last', current_data[1]) # {}) =>
          /\ current_data'[1].cols = current_data[1].cols
          /\ last'.click.action = "drop" =>
                 /\ NRows(current_data'[1]) =
                        NRows(current_data[1])
                            - Cardinality(Selected(last', current_data[1]))
                 /\ current_data'[1].rows =
                        RowsAt(Normalize(current_data[1]),
                               (0..(NRows(current_data[1]) - 1))
                                   \ Selected(last', current_data[1]))
          /\ last'.click.action = "keep" =>
                 /\ NRows(current_data'[1]) =
                        Cardinality(Selected(last', current_data[1]))
                 /\ current_data'[1].rows =
                        RowsAt(Normalize(current_data[1]),
                               Selected(last', current_data[1]))]_vars

\* "0-1" dropped two rows of a table and left a row behind
C12_Witness ==
    /\ last.kind = "apply_rows"
    /\ last.click.action = "drop"
    /\ last.click.rows_input = <<"0", "-", "1">>
    /\ last.changed
    /\ NRows(current_data[1]) = 1
    /\ Ids(current_data[1]) = <<2>>

\* the number of the first min(100, count) non-missing values of column j
\* that parse as a number, and that min(100, count)
Sampled(t, j) == Min2(SampleCap, Len(NonNull(Column(t, j))))

Parseable(t, j) ==
    Cardinality({i \in 1..Sampled(t, j) : FloatOk(NonNull(Column(t, j))[i])})

\* C13: in every table of the session that has rows, a column of a number
\* dtype is reported numeric; a column of dtype object is reported
\* categorical exactly when fewer than 0.7 of its first min(100, count)
\* non-missing values parse as a number, and is not reported numeric; no
\* column is reported both numeric and categorical.
C13_ClassificationByDtypeAndFraction ==
    \A opt \in {current_data, original_data} :
        (opt # EmptyOpt /\ NRows(opt[1]) > 0) =>
            \A j \in 1..NCols(opt[1]) :
                /\ IsNumericDtype(opt[1].dtypes[j]) =>
                       opt[1].cols[j] \in Range(get_numeric_columns(opt[1]))
                /\ opt[1].dtypes[j] = "object" =>
                       /\ opt[1].cols[j] \notin Range(get_numeric_columns(opt[1]))
                       /\ opt[1].cols[j] \in Range(get_categorical_columns(opt[1]))
                              <=> ThresholdDen * Parseable(opt[1], j)
                                      < ThresholdNum * Sampled(opt[1], j)
                /\ ~(/\ opt[1].cols[j] \in Range(get_numeric_columns(opt[1]))
                     /\ opt[1].cols[j] \in Range(get_categorical_columns(opt[1])))

\* current_data holds a numeric column beside a textual column whose values
\* all parse as numbers, which is in neither class
C13_Witness ==
    /\ current_data # EmptyOpt
    /\ NRows(current_data[1]) > 0
    /\ get_numeric_columns(current_data[1]) # <<>>
    /\ \E j \in 1..NCols(current_data[1]) :
          /\ current_data[1].dtypes[j] = "object"
          /\ Sampled(current_data[1], j) > 0
          /\ Parseable(current_data[1], j) = Sampled(current_data[1], j)
          /\ current_data[1].cols[j]
                 \notin Range(get_categorical_columns(current_data[1]))

\* column j of t has no non-missing value
AllMissing(t, j) == \A i \in 1..NRows(t) : IsNA(t.rows[i].c[j])

\* C14: a column of the session's tables without a non-missing value is
\* reported neither numeric nor categorical, whatever its dtype.
C14_AllMissingColumnInNeitherClass ==
    \A opt \in {current_data, original_data} :
        opt # EmptyOpt =>
            \A j \in 1..NCols(opt[1]) :
                AllMissing(opt[1], j) =>
                    /\ opt[1].cols[j] \notin Range(get_numeric_columns(opt[1]))
                    /\ opt[1].cols[j] \notin Range(get_categorical_columns(opt[1]))

\* the columns reported in either class
Classified(t) ==
    Range(get_numeric_columns(t)) \cup Range(get_categorical_columns(t))

\* C15: the classification is computed from the table at the point of use.
\* The columns a scaling, an encoding or a fill acts on are taken from the
\* classes of the table the pass starts from (its missing markers
\* normalised where the handler comes after the normalisation); after a
\* label encoding the encoded columns are numeric and not categorical in
\* the table stored; a column that a pass removes is in neither class of
\* the table stored.
C15_ClassificationFollowsTable ==
    [][(current_data # EmptyOpt /\ current_data' # EmptyOpt) =>
          /\ last'.kind = "apply_scaling" =>
                 Range(last'.click.cols)
                     \subseteq Range(get_numeric_columns(current_data[1]))
          /\ last'.kind = "fill_missing" =>
                 last'.click.method
                     \in FillMethods(Normalize(current_data[1]), last'.click.col)
          /\ last'.kind = "apply_encoding" =>
                 Range(last'.click.cols) \subseteq
                     Range(get_categorical_columns(Normalize(current_data[1])))
          /\ (/\ last'.kind = "apply_encoding"
              /\ last'.click.method = "label"
              /\ ~last'.raised) =>
                 /\ Range(last'.click.cols) \subseteq
                        Range(get_numeric_columns(current_data'[1]))
                 /\ Range(last'.click.cols)
                        \cap Range(get_categorical_columns(current_data'[1])) = {}
          /\ (Range(current_data[1].cols) \ Range(current_data'[1].cols))
                 \cap Classified(current_data'[1]) = {}]_vars

\* column B, textual in every file, was scaled: it had been label-encoded
\* and was then offered as a numeric column
C15_Witness ==
    /\ last.kind = "apply_scaling"
    /\ "B" \in Range(last.click.cols)
    /\ last.changed
    /\ "B" \in Range(get_numeric_columns(current_data[1]))

\* t holds a marker token as literal text
HoldsToken(t) ==
    \E i \in 1..NRows(t), j \in 1..NCols(t) : IsIndicator(t.rows[i].c[j])

MissingKinds == {"remove_rows_missing", "remove_cols_missing", "fill_missing"}

\* C16: when drop-rows, drop-columns or fill runs, the table it acts on is
\* the table the pass started from with every marker token turned into a
\* missing marker: it holds no token, and the table stored is the result of
\* the strategy on it.
C16_NormalizationPrecedesStrategy ==
    [][(last'.kind \in MissingKinds /\ current_data # EmptyOpt) =>
          /\ CleanMissing(AfterScaling(current_data[1], last'.click)).t
                 = Normalize(current_data[1])
          /\ ~HoldsToken(CleanMissing(AfterScaling(current_data[1],
                                                   last'.click)).t)
          /\ last'.kind = "remove_rows_missing" =>
                 current_data'[1] = DropNaRows(Normalize(current_data[1]))
          /\ last'.kind = "remove_cols_missing" =>
                 current_data'[1] = DropCols(Normalize(current_data[1]),
                                             Range(last'.click.cols))
          /\ last'.kind = "fill_missing" =>
                 current_data'[1] = FillMissing(Normalize(current_data[1]),
                                                last'.click)]_vars

\* drop-rows removed the row of a.csv whose A cell held a token: column A
\* is textual only after a fill with a text, and it had a missing cell in
\* this pass only if that text was the token ''
C16_Witness ==
    /\ last.kind = "remove_rows_missing"
    /\ last.changed
    /\ uploaded_file_name = <<"a.csv">>
    /\ current_data[1].cols = <<"A", "B">>
    /\ current_data[1].dtypes[1] = "object"
    /\ Ids(current_data[1]) = <<0, 1>>

\* C17: after a pass that loaded a file, neither the table stored as
\* original nor the table stored as current holds a marker token ('missing'
\* among them) as literal text.
C17_LoadedTableHoldsNoToken ==
    last.loadOk =>
        /\ ~HoldsToken(original_data[1])
        /\ ~HoldsToken(current_data[1])

\* the non-missing values of column name of t all equal v
AllEqual(t, name, v) ==
    /\ HasCol(t, name)
    /\ \E i \in 1..NRows(t) : t.rows[i].c[ColPos(t, name)] = v
    /\ \A i \in 1..NRows(t) :
          IsNA(t.rows[i].c[ColPos(t, name)]) \/ t.rows[i].c[ColPos(t, name)] = v

\* t with every missing cell of column name set to v, and nothing else
\* changed
WithMissingSet(t, name, v) ==
    [t EXCEPT !.rows =
        [i \in 1..NRows(t) |->
            [id |-> t.rows[i].id,
             c  |-> [j \in 1..NCols(t) |->
                        IF j = ColPos(t, name) /\ IsNA(t.rows[i].c[j])
                        THEN v ELSE t.rows[i].c[j]]]]]

\* C18: a fill with "mean" on a numeric column whose non-missing values all
\* equal v stores the table the fill acted on with every missing cell of
\* that column set to v: the other cells, the rows, their identities and the
\* columns are as they were.
C18_MeanOfEqualValuesFillsWithValue ==
    [][(/\ last'.kind = "fill_missing"
        /\ last'.click.method = "mean"
        /\ current_data # EmptyOpt) =>
          \A v \in {Normalize(current_data[1]).rows[i].c[j] :
                       i \in 1..NRows(current_data[1]),
                       j \in 1..NCols(current_data[1])} :
              AllEqual(Normalize(current_data[1]), last'.click.col, v) =>
                  current_data'[1] =
                      WithMissingSet(Normalize(current_data[1]),
                                     last'.click.col, v)]_vars

\* the missing cell of column A of a.csv, whose other cells hold 1, was
\* filled with the mean
C18_Witness ==
    /\ last.kind = "fill_missing"
    /\ last.click.method = "mean"
    /\ last.click.col = "A"
    /\ last.changed
    /\ Ids(current_data[1]) = <<0, 1, 2>>
    /\ Column(current_data[1], 1) = <<Num(1, 1), Num(1, 1), Num(1, 1)>>

\* C19: a fill with "mean" or "median" on a column without a non-missing
\* value reports an error, not a success, and stores the table it acted on
\* unchanged.
C19_UndefinedMeanFails ==
    [][(/\ last'.kind = "fill_missing"
        /\ last'.click.method \in {"mean", "median"}
        /\ current_data # EmptyOpt
        /\ AllMissing(Normalize(current_data[1]),
                      ColPos(current_data[1], last'.click.col))) =>
          /\ FillReport(FillValue(Normalize(current_data[1]), last'.click.col,
                                  last'.click.method, last'.click.new))
                 = "error"
          /\ current_data'[1] = Normalize(current_data[1])]_vars

\* the distinct row contents of t
Contents(t) == {t.rows[i].c : i \in 1..NRows(t)}

\* the rows of t repeating the content of an earlier row: the total excess
Excess(t) == NRows(t) - Cardinality(Contents(t))

\* the 0-based positions of the rows of t that are the first with their
\* content
FirstOfContent(t) ==
    {i - 1 : i \in {k \in 1..NRows(t) :
                       \A a \in 1..(k - 1) : t.rows[a].c # t.rows[k].c}}

\* C20: a deduplication with keep=first over all columns of a table with
\* total excess e stores a table with e fewer rows: the first row of every
\* content, identities kept, in the order of the table.
C20_DedupKeepsFirstOfEachGroup ==
    [][(/\ last'.kind = "remove_duplicates"
        /\ last'.click.method = "first"
        /\ last'.click.cols = <<>>
        /\ current_data # EmptyOpt) =>
          /\ Excess(Normalize(current_data[1])) > 0
          /\ NRows(current_data'[1]) =
                 NRows(current_data[1]) - Excess(Normalize(current_data[1]))
          /\ current_data'[1].rows =
                 RowsAt(Normalize(current_data[1]),
                        FirstOfContent(Normalize(current_data[1])))
          /\ current_data'[1].cols = current_data[1].cols]_vars

\* the second of the two equal rows of a.csv was removed
C20_Witness ==
    /\ last.kind = "remove_duplicates"
    /\ last.click.method = "first"
    /\ last.click.cols = <<>>
    /\ last.changed
    /\ uploaded_file_name = <<"a.csv">>
    /\ Ids(current_data[1]) = <<0, 2>>

\* rows a and b of t are distinct rows equal across the columns named in S
\* (across every column when S is empty)
EqualAcross(t, S, a, b) == a # b /\ SameOn(t, SubsetPositions(t, S), a, b)

\* the click of the deduplication button with subset S and policy keep
DedupClick(S, keep) ==
    [NoClick EXCEPT !.btn = "remove_duplicates", !.cols = S, !.method = keep]

\* C21: for every column subset S of the current table across which two
\* rows are equal, the deduplication can be applied; and an applied
\* deduplication keeps exactly the first ("first") or last ("last") row of
\* every group of S-equal rows, or no row of a group of two or more
\* ("false").
C21_DedupBySubsetAvailableAndExact ==
    [][/\ current_data # EmptyOpt =>
              \A S \in ColSeqs(Range(current_data[1].cols)) \cup {<<>>} :
                  (\E a, b \in 1..NRows(current_data[1]) :
                       EqualAcross(Normalize(current_data[1]), S, a, b)) =>
                      MainPass(Sess, uploaded, DedupClick(S, "first")).fired
       /\ (last'.kind = "remove_duplicates" /\ current_data # EmptyOpt) =>
              Ids(current_data'[1]) =
                  SeqOfSet({Normalize(current_data[1]).rows[i].id :
                      i \in {k \in 1..NRows(current_data[1]) :
                          CASE last'.click.method = "first" ->
                                 ~\E a \in 1..(k - 1) :
                                     EqualAcross(Normalize(current_data[1]),
                                                 last'.click.cols, a, k)
                            [] last'.click.method = "last" ->
                                 ~\E a \in (k + 1)..NRows(current_data[1]) :
                                     EqualAcross(Normalize(current_data[1]),
                                                 last'.click.cols, a, k)
                            [] OTHER ->
                                 ~\E a \in 1..NRows(current_data[1]) :
                                     EqualAcross(Normalize(current_data[1]),
                                                 last'.click.cols, a, k)}})]_vars

\* the distinct non-missing values of column name of t
Distinct(t, name) == Range(NonNull(Column(t, ColPos(t, name))))

\* table u is table t without its column at position j, followed by d more
\* columns
WithoutColumnPlus(t, j, d, u) ==
    /\ NCols(u) = NCols(t) - 1 + d
    /\ Ids(u) = Ids(t)
    /\ \A k \in 1..(NCols(t) - 1) :
          /\ u.cols[k] = t.cols[IF k < j THEN k ELSE k + 1]
          /\ u.dtypes[k] = t.dtypes[IF k < j THEN k ELSE k + 1]
          /\ \A i \in 1..NRows(t) :
                u.rows[i].c[k] = t.rows[i].c[IF k < j THEN k ELSE k + 1]

\* the last d columns of u are the indicators of the values of col: every
\* value has a column that is 1 exactly in the rows holding it
IndicatorsOf(col, d, u) ==
    /\ \A k \in (NCols(u) - d + 1)..NCols(u), i \in 1..NRows(u) :
          u.rows[i].c[k] \in {Num(0, 1), Num(1, 1)}
    /\ \A v \in Range(NonNull(col)) :
          \E k \in (NCols(u) - d + 1)..NCols(u) :
              \A i \in 1..NRows(u) : (u.rows[i].c[k] = Num(1, 1)) <=> (col[i] = v)
    /\ \A i \in 1..NRows(u) :
          Cardinality({k \in (NCols(u) - d + 1)..NCols(u) :
                          u.rows[i].c[k] = Num(1, 1)})
              = IF IsNA(col[i]) THEN 0 ELSE 1

\* C22: a one-hot encoding of one column with d distinct values stores the
\* table it acted on without that column and with d indicator columns
\* appended, one per distinct value and exactly one of them set in every row
\* that holds a value; rows, identities and the other columns are unchanged.
C22_OneHotAddsOneColumnPerValue ==
    [][(/\ last'.kind = "apply_encoding"
        /\ last'.click.method = "onehot"
        /\ Len(last'.click.cols) = 1
        /\ current_data # EmptyOpt) =>
          /\ WithoutColumnPlus(
                 Normalize(current_data[1]),
                 ColPos(Normalize(current_data[1]), last'.click.cols[1]),
                 Cardinality(Distinct(Normalize(current_data[1]),
                                      last'.click.cols[1])),
                 current_data'[1])
          /\ IndicatorsOf(
                 Column(Normalize(current_data[1]),
                        ColPos(Normalize(current_data[1]), last'.click.cols[1])),
                 Cardinality(Distinct(Normalize(current_data[1]),
                                      last'.click.cols[1])),
                 current_data'[1])]_vars

\* column B of a.csv (x, x, y) was replaced by the indicators B_x and B_y
C22_Witness ==
    /\ last.kind = "apply_encoding"
    /\ last.click.method = "onehot"
    /\ last.click.cols = <<"B">>
    /\ last.changed
    /\ uploaded_file_name = <<"a.csv">>
    /\ current_data[1].cols = <<"A", "B_x", "B_y">>
    /\ NRows(current_data[1]) = 3

\* the column names of t are pairwise distinct
NamesDistinct(t) ==
    \A a, b \in 1..NCols(t) : a # b => t.cols[a] # t.cols[b]

\* C23: after a one-hot encoding the column names of the table stored are
\* pairwise distinct.
C23_OneHotNamesDistinct ==
    [][(last'.kind = "apply_encoding" /\ last'.click.method = "onehot"
            /\ current_data' # EmptyOpt) =>
           NamesDistinct(current_data'[1])]_vars

\* a label encoding of one column that did not raise
LabelPass(l) ==
    /\ l.kind = "apply_encoding"
    /\ l.click.method = "label"
    /\ Len(l.click.cols) = 1
    /\ ~l.raised

\* the column a label encoding pass acts on, and the column it stores
Encoded(t, l) == Column(Normalize(t), ColPos(t, l.click.cols[1]))

Decode(order, code) == order[code.n + 1]

\* the distinct values of a column, a missing cell counting as one value
Values(col) == Range(col)

RECURSIVE CeilLog2From(_, _)
CeilLog2From(k, b) == IF Pow2(b) >= k THEN b ELSE CeilLog2From(k, b + 1)

CeilLog2(k) == CeilLog2From(k, 0)

\* the label code of cell i of col
CodeOf(col, i) ==
    Cardinality({v \in Range(NonNull(col)) :
                    IsNA(col[i]) \/ CellLess(v, col[i])})

\* table u is table t with its column at position j replaced by nb bit
\* columns at the end that hold the binary digits of the label codes of col
BinaryEncodedWith(t, j, col, nb, u) ==
    /\ WithoutColumnPlus(t, j, nb, u)
    /\ \A b \in 0..(nb - 1), i \in 1..NRows(t) :
          /\ u.cols[NCols(t) + b] = t.cols[j] \o "_bit_" \o ToString(b)
          /\ u.rows[i].c[NCols(t) + b] =
                 Num((CodeOf(col, i) \div Pow2(b)) % 2, 1)
    /\ \A a, b \in 1..NRows(t) :
          (col[a] = col[b]) <=>
              (\A k \in NCols(t)..NCols(u) : u.rows[a].c[k] = u.rows[b].c[k])

\* a binary encoding of one column that did not raise
BinaryPass(l) ==
    /\ l.kind = "apply_encoding"
    /\ l.click.method = "binary"
    /\ Len(l.click.cols) = 1
    /\ ~l.raised

\* C26 (as stated): a binary encoding of a column whose largest label code
\* is m replaces the column by ceil(log2(m+1)) bit columns holding the
\* binary digits of each row's code, for every m >= 0.
C26_BinaryBitsCeilLog2 ==
    [][(BinaryPass(last') /\ current_data # EmptyOpt) =>
          BinaryEncodedWith(
              Normalize(current_data[1]),
              ColPos(current_data[1], last'.click.cols[1]),
              Encoded(current_data[1], last'),
              CeilLog2(Cardinality(Values(Encoded(current_data[1], last')))),
              current_data'[1])]_vars

\* C26 (amended): the number of bit columns is the number of binary digits
\* of m, which is ceil(log2(m+1)) for m >= 1 and 1 for m = 0.
C26_BinaryBitsDigitsOfMax ==
    [][(BinaryPass(last') /\ current_data # EmptyOpt) =>
          BinaryEncodedWith(
              Normalize(current_data[1]),
              ColPos(current_data[1], last'.click.cols[1]),
              Encoded(current_data[1], last'),
              Max2(1, CeilLog2(Cardinality(Values(Encoded(current_data[1],
                                                          last'))))),
              current_data'[1])]_vars

\* a column B holding the one value x in both of its rows (m = 0) was
\* replaced by the one bit column B_bit_0
C26_Witness ==
    /\ BinaryPass(last)
    /\ last.click.cols = <<"B">>
    /\ last.changed
    /\ uploaded_file_name = <<"a.csv">>
    /\ Ids(current_data[1]) = <<0, 1>>
    /\ current_data[1].cols = <<"A", "B_bit_0">>
    /\ Column(current_data[1], 2) = <<Num(0, 1), Num(0, 1)>>

\* t with the cells of column j that equal the text old set to the text new
Replaced(t, j, old, new) ==
    [t EXCEPT !.rows =
        [i \in 1..NRows(t) |->
            [id |-> t.rows[i].id,
             c  |-> [k \in 1..NCols(t) |->
                        IF k = j /\ t.rows[i].c[k] = Str(old)
                        THEN Str(new) ELSE t.rows[i].c[k]]]]]

\* the cells of column j of t that equal the text old
Occurrences(t, j, old) == {i \in 1..NRows(t) : t.rows[i].c[j] = Str(old)}

\* C27: a targeted replacement of a given old text in one column turns
\* exactly the cells of that column equal to the old text into the new text
\* and leaves every other cell, column and row alone; the count it reports is
\* the number of those cells; when the old text does not occur the table is
\* left as it was.  The pass stores that table after its normalisation of
\* marker tokens.
C27_ReplacementExactAndCounted ==
    [][(/\ last'.kind = "apply_replacement"
        /\ last'.click.old # ""
        /\ current_data # EmptyOpt) =>
          /\ handle_value_replacement(Copies(current_data[1]), last'.click).t
                 = Replaced(current_data[1],
                            ColPos(current_data[1], last'.click.col),
                            last'.click.old, last'.click.new)
          /\ current_data'[1] =
                 Normalize(Replaced(current_data[1],
                                    ColPos(current_data[1], last'.click.col),
                                    last'.click.old, last'.click.new))
          /\ ReplaceCount(current_data[1], last'.click.col, last'.click.old)
                 = Cardinality(Occurrences(current_data[1],
                                           ColPos(current_data[1],
                                                  last'.click.col),
                                           last'.click.old))
          /\ Occurrences(current_data[1],
                         ColPos(current_data[1], last'.click.col),
                         last'.click.old) = {} =>
                 /\ ReplaceCount(current_data[1], last'.click.col,
                                 last'.click.old) = 0
                 /\ current_data'[1] = Normalize(current_data[1])]_vars

\* the two x of column B of a.csv were replaced by z
C27_Witness ==
    /\ last.kind = "apply_replacement"
    /\ last.click.col = "B"
    /\ last.click.old = "x"
    /\ last.click.new = "z"
    /\ last.changed
    /\ Ids(current_data[1]) = <<0, 1, 2>>
    /\ Column(current_data[1], 2) = <<Str("z"), Str("z"), Str("y")>>

\* C28: at the end of every pass that drew the processing tab for a table
\* with rows, current_data holds no marker token as literal text; a
\* replacement or a fill whose new text is a marker token leaves missing
\* cells behind.
C28_NoTokenAtEndOfPass ==
    (last.rendered /\ current_data # EmptyOpt) =>
        ~HoldsToken(current_data[1])

C30_DisplaysShowFinalTable ==
    [][\A p \in {MainPass(Sess, uploaded', last'.click)} :
          (p.rendered /\ ~p.raised) =>
              /\ p.sess.current_data = current_data'
              /\ MetricsTable(p) = current_data'
              /\ StatsTable(p) = current_data'
              /\ VizTable(p) = current_data']_vars
====
